---------------------------- MODULE Spec2Model ----------------------------
(***************************************************************************)
(* RFID door access service (src/main.py): the users, access_logs and      *)
(* registration_sessions tables, and the HTTP handlers that read and write *)
(* them.  Every handler runs in a worker of its own; a handler's database   *)
(* queries and commits are its atomic steps (each query sees the rows       *)
(* committed so far, each commit is one transaction), so two handlers       *)
(* interleave between any two of their statements.                          *)
(*                                                                         *)
(* A behaviour runs under one of four loads, fixed when it starts:         *)
(*   "serial"  one worker, so requests are handled one after the other;    *)
(*             every card may be presented and the clock advances;         *)
(*   "race"    two workers, whose handlers interleave statement by         *)
(*             statement; they present one card and the clock stands       *)
(*             still for the length of the race;                           *)
(*   "signup"  as "serial" with one card and the clock standing still,     *)
(*             and with the registration and verification pages and the    *)
(*             status poll of the bind page in use;                        *)
(*   "reader"  as "serial" with the clock standing still, one student     *)
(*             enrolling, one more logged request, and with the card       *)
(*             reader thread running (RFID_ENABLED);                       *)
(*             current_registering_student_id, which only that thread      *)
(*             reads, is followed under this load.                         *)
(***************************************************************************)
EXTENDS Integers, Sequences, FiniteSets, Bags, TLC

\* ------------------------------------------------------------------ bounds
MaxLog == 3          \* requests are accepted while access_logs has fewer rows
MaxTicks == 2        \* clock advances in one behaviour
TickSeconds == 90    \* seconds the clock advances by in one step
MaxTokens == 3       \* distinct verification tokens

\* ------------------------------------------------------- program constants
TTL == 90            \* timedelta(seconds=90)

Students == {"s1", "s2"}
Cards == {"c1", "c2"}
Names == {"n1"}
Tokens == 1..MaxTokens
Procs == {"w1", "w2"}
None == "none"       \* Python None / SQL NULL in a string column
NoToken == 0         \* NULL verification_token
NoRow == [absent |-> TRUE]   \* .first() found no row

VARIABLES
    users,      \* table users: student_id -> row, or NoRow
    sessions,   \* table registration_sessions: a bag of rows
    logs,       \* table access_logs: a bag of rows (id and timestamp left out)
    now,        \* the wall clock, in seconds
    procs,      \* the requests in flight, one per worker
    load,       \* "serial", "race", "signup" or "reader": what is in use
    target,     \* current_registering_student_id
    reader,     \* the card reader thread: "off", "listening" or "stopped"
    mon         \* observer: the run of consecutive calls seen so far

vars == <<users, sessions, logs, now, procs, load, target, reader, mon>>

\* --------------------------------------------------------------- the tables
UserRow(s, nm, uid, ver, tok) ==
    [student_id |-> s, name |-> nm, rfid_uid |-> uid,
     email_verified |-> ver, verification_token |-> tok]

SessionRow(s, uid, st, exp) ==
    [student_id |-> s, first_uid |-> uid, step |-> st, expires_at |-> exp]

LogRow(s, uid, act) == [student_id |-> s, rfid_uid |-> uid, action |-> act]

\* db.query(RegistrationSession).filter(student_id == s): the matching rows
SessionsOf(s) == {r \in BagToSet(sessions) : r.student_id = s}

\* INSERT INTO registration_sessions
InsertSession(row) == sessions (+) SetToBag({row})

\* DELETE FROM registration_sessions WHERE student_id = s
DeleteSessions(s) == [r \in BagToSet(sessions) \ SessionsOf(s) |-> sessions[r]]

\* db.query(User).filter(User.rfid_uid == uid): the matching rows
UsersWithCard(uid) ==
    {users[s] : s \in {x \in Students : users[x] # NoRow /\ users[x].rfid_uid = uid}}

\* db.query(User).filter(and_(User.rfid_uid == uid, User.student_id != s))
OtherHolders(uid, s) == {u \in UsersWithCard(uid) : u.student_id # s}

\* The ORM writes only the attributes whose value differs from the loaded one.
Dirty(snap, new) == \E f \in DOMAIN snap : new[f] # snap[f]

ApplyUpdate(cur, snap, new) ==
    [f \in DOMAIN cur |-> IF new[f] # snap[f] THEN new[f] ELSE cur[f]]

RECURSIVE Copies(_)
Copies(S) ==
    IF S = {} THEN 0
    ELSE LET r == CHOOSE x \in S : TRUE IN sessions[r] + Copies(S \ {r})

\* UPDATE registration_sessions SET <the changed columns> WHERE student_id = s
UpdateSessions(s, snap, new) ==
    LET rows == BagToSet(sessions)
        U(r) == IF r.student_id = s THEN ApplyUpdate(r, snap, new) ELSE r
    IN  [n \in {U(r) : r \in rows} |-> Copies({r \in rows : U(r) = n})]

\* (the column without its constraint)
UidUniqueOff(s, uid) == TRUE

\* users.rfid_uid is UNIQUE: may row s take the value uid?

UidUnique(s, uid) ==
    \A x \in Students \ {s} : users[x] = NoRow \/ users[x].rfid_uid # uid

\* (the table without its key)
SessionKeyFreeOff(s) == TRUE

\* registration_sessions.student_id is the PRIMARY KEY: may a row for s be inserted?

SessionKeyFree(s) == SessionsOf(s) = {}

\* (the expiry test with <= and with > in place of <)
ExpiredAtDeadline(row, t) == row.expires_at <= t

ExpiredReversed(row, t) == row.expires_at > t

\* session.expires_at and session.expires_at < datetime.utcnow()
Expired(row, t) == row.expires_at < t

\* ------------------------------------------------------------- the workers
IdleProc ==
    [pc |-> "idle", op |-> "none", sid |-> None, uid |-> None, tok |-> NoToken,
     nm |-> None, sess |-> NoRow, usr |-> NoRow, exp |-> 0, res |-> "none",
     ntf |-> "none", alone |-> TRUE, free |-> FALSE, taken |-> FALSE,
     late |-> FALSE]

MonIdle == [stage |-> 0, sid |-> None, uid |-> None]

Idle(p) == procs[p].pc = "idle"

\* The workers, cards and clock of the behaviour's load.
Workers == IF load = "race" THEN Procs ELSE {"w1"}

Presented == IF load \in {"serial", "reader"} THEN Cards ELSE {"c1"}

Enrolling == IF load = "reader" THEN {"s1"} ELSE Students

LogCap == IF load = "reader" THEN MaxLog + 1 ELSE MaxLog

\* A request is accepted by worker p; the requests already in flight are no
\* longer alone.
Accept(p, rec) ==
    /\ Idle(p)
    /\ p \in Workers
    /\ BagCardinality(logs) < LogCap
    /\ UNCHANGED <<load, target, reader>>
    /\ procs' = [q \in Procs |->
                    IF q = p
                    THEN [rec EXCEPT !.alone = \A x \in Procs : Idle(x)]
                    ELSE IF Idle(q) THEN procs[q]
                    ELSE [procs[q] EXCEPT !.alone = FALSE]]

Call(op, s, uid) == [IdleProc EXCEPT !.op = op, !.sid = s, !.uid = uid]

Goto(p, rec) == procs' = [procs EXCEPT ![p] = rec]

Done(rec, r) == [rec EXCEPT !.pc = "done", !.res = r]

At(p, label) == procs[p].pc = label

\* An uncaught exception: the transaction is rolled back, the response is a 500.
Fault(p) ==
    /\ Goto(p, Done(procs[p], "fault"))
    /\ UNCHANGED <<users, sessions, logs>>

\* ------------------------------------------------------------ notification
\* What becomes of the request to the Telegram API.
Outcomes == {"sent", "failed"}

\* (the notifier without its try / except)
send_telegram_raises(outcome) == IF outcome = "failed" THEN "raised" ELSE "returned"

\* try: requests.post(...) except: pass -- the function returns either way.
send_telegram(outcome) == "returned"

\* The handler notifies after its commit and then answers r.
Notified(p, rec, r) ==
    \E o \in Outcomes :
        Goto(p, Done([rec EXCEPT !.ntf = o],
                     IF send_telegram(o) = "raised" THEN "fault" ELSE r))

\* ------------------------------------------------- POST /api/register/start
\* ------------------------------------------------------------ and GET /bind
\* The block both handlers share: create the session row or reset it.
\* expires = datetime.utcnow() + timedelta(seconds=90); the session query.
LoadSession(p, next) ==
    LET c == procs[p]
        e == now + TTL
    IN  /\ IF SessionsOf(c.sid) = {}
           THEN Goto(p, [c EXCEPT !.pc = next, !.exp = e, !.sess = NoRow])
           ELSE \E r \in SessionsOf(c.sid) :
                    Goto(p, [c EXCEPT !.pc = next, !.exp = e, !.sess = r])
        /\ UNCHANGED <<users, sessions, logs, now, load, target, reader, mon>>

\* (the reset with step left as it was)
CreateOrResetKeepsStep(p) ==
    LET c == procs[p]
        new == [c.sess EXCEPT !.first_uid = None, !.expires_at = c.exp]
    IN  /\ IF c.sess # NoRow
           THEN IF ~Dirty(c.sess, new)
                THEN Goto(p, Done(c, "ok")) /\ UNCHANGED <<users, sessions, logs>>
                ELSE IF SessionsOf(c.sid) = {}
                THEN Fault(p)
                ELSE /\ sessions' = UpdateSessions(c.sid, c.sess, new)
                     /\ Goto(p, Done(c, "ok"))
                     /\ UNCHANGED <<users, logs>>
           ELSE IF ~SessionKeyFree(c.sid)
                THEN Fault(p)
                ELSE /\ sessions' = InsertSession(SessionRow(c.sid, None, 0, c.exp))
                     /\ Goto(p, Done(c, "ok"))
                     /\ UNCHANGED <<users, logs>>
        /\ UNCHANGED <<now, load, reader, mon>>

\* session.first_uid = None; session.step = 0; session.expires_at = expires,
\* or db.add(RegistrationSession(...)); then db.commit().
CreateOrReset(p) ==
    LET c == procs[p]
        new == [c.sess EXCEPT !.first_uid = None, !.step = 0, !.expires_at = c.exp]
    IN  /\ IF c.sess # NoRow
           THEN IF ~Dirty(c.sess, new)
                THEN Goto(p, Done(c, "ok")) /\ UNCHANGED <<users, sessions, logs>>
                ELSE IF SessionsOf(c.sid) = {}
                THEN Fault(p)       \* StaleDataError: UPDATE matched no row
                ELSE /\ sessions' = UpdateSessions(c.sid, c.sess, new)
                     /\ Goto(p, Done(c, "ok"))
                     /\ UNCHANGED <<users, logs>>
           ELSE IF ~SessionKeyFree(c.sid)
                THEN Fault(p)       \* IntegrityError: duplicate primary key
                ELSE /\ sessions' = InsertSession(SessionRow(c.sid, None, 0, c.exp))
                     /\ Goto(p, Done(c, "ok"))
                     /\ UNCHANGED <<users, logs>>
        /\ UNCHANGED <<now, load, reader, mon>>

StartBegin(p, s) ==
    /\ Accept(p, IF s = None THEN Done(Call("start", s, None), "missing")
                 ELSE IF users[s] = NoRow
                 THEN Done(Call("start", s, None), "user_not_found")
                 ELSE [Call("start", s, None) EXCEPT !.pc = "start_q", !.usr = users[s]])
    /\ UNCHANGED <<users, sessions, logs, now, mon>>

StartQuery(p) == At(p, "start_q") /\ LoadSession(p, "start_commit")

StartCommit(p) ==
    /\ At(p, "start_commit")
    /\ CreateOrReset(p)
    /\ UNCHANGED target

BindBegin(p, s) ==
    /\ Accept(p, IF users[s] = NoRow \/ users[s].email_verified = 0
                 THEN Done(Call("bind", s, None), "forbidden")
                 ELSE [Call("bind", s, None) EXCEPT !.pc = "bind_q", !.usr = users[s]])
    /\ UNCHANGED <<users, sessions, logs, now, mon>>

BindQuery(p) == At(p, "bind_q") /\ LoadSession(p, "bind_commit")

\* After the commit the page puts the reader into registration mode for the
\* student (a failed commit leaves the handler before that).
BindCommit(p) ==
    /\ At(p, "bind_commit")
    /\ CreateOrReset(p)
    /\ target' = IF load = "reader" /\ procs'[p].res = "ok"
                 THEN procs[p].sid ELSE target

\* -------------------------------------------------- POST /api/register/scan
\* The request data, the session query and the expiry test.
ScanBegin(p, s, uid) ==
    LET base == [Call("scan", s, uid) EXCEPT
                    !.free = (uid # None /\ UsersWithCard(uid) = {}),
                    !.taken = (uid # None /\ OtherHolders(uid, s) # {})]
        Route(r) ==
            LET b == [base EXCEPT !.sess = r, !.late = (r.expires_at < now)]
            IN  IF Expired(r, now) THEN Done(b, "no_session")
                ELSE IF r.step = 0 THEN [b EXCEPT !.pc = "scan0_other"]
                ELSE IF r.step = 1
                THEN IF r.first_uid = uid THEN [b EXCEPT !.pc = "scan1_user"]
                     ELSE [b EXCEPT !.pc = "scan1_reset"]
                ELSE Done(b, "none")
    IN  /\ IF s = None \/ uid = None THEN Accept(p, Done(base, "missing"))
           ELSE IF SessionsOf(s) = {} THEN Accept(p, Done(base, "no_session"))
           ELSE \E r \in SessionsOf(s) : Accept(p, Route(r))
        /\ UNCHANGED <<users, sessions, logs, now, mon>>

\* (step 0 without the question)
Scan0OtherSkipped(p) ==
    /\ At(p, "scan0_other")
    /\ Goto(p, [procs[p] EXCEPT !.pc = "scan0_commit"])
    /\ UNCHANGED <<users, sessions, logs, now, load, target, reader, mon>>

\* step 0: is the card bound to somebody else?
Scan0Other(p) ==
    LET c == procs[p]
    IN  /\ At(p, "scan0_other")
        /\ IF OtherHolders(c.uid, c.sid) # {}
           THEN Goto(p, Done(c, "uid_already_bound"))
           ELSE Goto(p, [c EXCEPT !.pc = "scan0_commit"])
        /\ UNCHANGED <<users, sessions, logs, now, load, target, reader, mon>>

\* step 0: first_uid, step and expires_at are set and committed.
Scan0Commit(p) ==
    LET c == procs[p]
        new == [c.sess EXCEPT !.first_uid = c.uid, !.step = 1,
                              !.expires_at = now + TTL]
    IN  /\ At(p, "scan0_commit")
        /\ IF SessionsOf(c.sid) = {}
           THEN Fault(p)            \* StaleDataError: UPDATE matched no row
           ELSE /\ sessions' = UpdateSessions(c.sid, c.sess, new)
                /\ Goto(p, [c EXCEPT !.pc = "scan0_log"])
                /\ UNCHANGED <<users, logs>>
        /\ UNCHANGED <<now, load, target, reader, mon>>

\* step 0: the SCAN_1 row is added and committed.
Scan0Log(p) ==
    LET c == procs[p]
    IN  /\ At(p, "scan0_log")
        /\ logs' = logs (+) SetToBag({LogRow(c.sid, c.uid, "SCAN_1")})
        /\ Goto(p, Done(c, "first_scan_ok"))
        /\ UNCHANGED <<users, sessions, now, load, target, reader, mon>>

\* step 1, same card: the user row is loaded.
Scan1User(p) ==
    LET c == procs[p]
    IN  /\ At(p, "scan1_user")
        /\ IF users[c.sid] = NoRow
           THEN Goto(p, Done(c, "user_not_found"))
           ELSE Goto(p, [c EXCEPT !.pc = "scan1_other", !.usr = users[c.sid]])
        /\ UNCHANGED <<users, sessions, logs, now, load, target, reader, mon>>

\* (step 1 without the question)
Scan1OtherSkipped(p) ==
    /\ At(p, "scan1_other")
    /\ Goto(p, [procs[p] EXCEPT !.pc = "scan1_commit"])
    /\ UNCHANGED <<users, sessions, logs, now, load, target, reader, mon>>

\* step 1, same card: is the card bound to somebody else by now?
Scan1Other(p) ==
    LET c == procs[p]
    IN  /\ At(p, "scan1_other")
        /\ IF OtherHolders(c.uid, c.sid) # {}
           THEN Goto(p, [c EXCEPT !.pc = "scan1_abort"])
           ELSE Goto(p, [c EXCEPT !.pc = "scan1_commit"])
        /\ UNCHANGED <<users, sessions, logs, now, load, target, reader, mon>>

\* step 1, card taken: the session is deleted (deleting no row only warns).
Scan1Abort(p) ==
    LET c == procs[p]
    IN  /\ At(p, "scan1_abort")
        /\ sessions' = DeleteSessions(c.sid)
        /\ Goto(p, Done(c, "uid_already_bound_by_other"))
        /\ UNCHANGED <<users, logs, now, load, target, reader, mon>>

\* step 1, same card: the binding, the bind row and the session's deletion
\* are committed as one transaction.
Scan1Commit(p) ==
    LET c == procs[p]
        new == [c.usr EXCEPT !.rfid_uid = c.uid]
    IN  /\ At(p, "scan1_commit")
        /\ IF Dirty(c.usr, new) /\ ~UidUnique(c.sid, c.uid)
           THEN Fault(p)            \* IntegrityError: users.rfid_uid is unique
           ELSE /\ users' = [users EXCEPT ![c.sid] = ApplyUpdate(@, c.usr, new)]
                /\ logs' = logs (+) SetToBag({LogRow(c.sid, c.uid, "bind")})
                /\ sessions' = DeleteSessions(c.sid)
                /\ Notified(p, c, "bound")
        /\ UNCHANGED <<now, load, target, reader, mon>>

\* (the reset with step left as it was)
Scan1ResetKeepsStep(p) ==
    LET c == procs[p]
        new == [c.sess EXCEPT !.first_uid = None, !.expires_at = now + TTL]
    IN  /\ At(p, "scan1_reset")
        /\ IF SessionsOf(c.sid) = {}
           THEN Fault(p)
           ELSE /\ sessions' = UpdateSessions(c.sid, c.sess, new)
                /\ Goto(p, Done(c, "mismatch"))
                /\ UNCHANGED <<users, logs>>
        /\ UNCHANGED <<now, load, target, reader, mon>>

\* step 1, other card: back to step 0.
Scan1Reset(p) ==
    LET c == procs[p]
        new == [c.sess EXCEPT !.first_uid = None, !.step = 0,
                              !.expires_at = now + TTL]
    IN  /\ At(p, "scan1_reset")
        /\ IF SessionsOf(c.sid) = {}
           THEN Fault(p)            \* StaleDataError: UPDATE matched no row
           ELSE /\ sessions' = UpdateSessions(c.sid, c.sess, new)
                /\ Goto(p, Done(c, "mismatch"))
                /\ UNCHANGED <<users, logs>>
        /\ UNCHANGED <<now, load, target, reader, mon>>

\* ------------------------------------------------------------ POST /api/scan
\* (the handler without the test for a missing rfid_uid)
GateBeginUnchecked(p, uid) ==
    /\ IF UsersWithCard(uid) = {}
       THEN Accept(p, Done(Call("gate", None, uid), "deny"))
       ELSE \E u \in UsersWithCard(uid) :
                Accept(p, [Call("gate", None, uid) EXCEPT
                              !.pc = "gate_commit", !.usr = u])
    /\ UNCHANGED <<users, sessions, logs, now, mon>>

\* rfid_uid missing: 400; no user with the card: deny; else the user is kept.
GateBegin(p, uid) ==
    /\ IF uid = None THEN Accept(p, Done(Call("gate", None, uid), "missing"))
       ELSE IF UsersWithCard(uid) = {}
       THEN Accept(p, Done(Call("gate", None, uid), "deny"))
       ELSE \E u \in UsersWithCard(uid) :
                Accept(p, [Call("gate", None, uid) EXCEPT
                              !.pc = "gate_commit", !.usr = u])
    /\ UNCHANGED <<users, sessions, logs, now, mon>>

\* (the commit that adds the entry row twice)
GateCommitTwice(p) ==
    LET c == procs[p]
        row == LogRow(c.usr.student_id, c.uid, "entry")
    IN  /\ At(p, "gate_commit")
        /\ logs' = logs (+) SetToBag({row}) (+) SetToBag({row})
        /\ Notified(p, [c EXCEPT !.usr = users[c.usr.student_id]], "allow")
        /\ UNCHANGED <<users, sessions, now, load, target, reader, mon>>

\* The entry row is added and committed; the response reads the user's
\* student_id and name again (the commit expired the loaded attributes).
GateCommit(p) ==
    LET c == procs[p]
    IN  /\ At(p, "gate_commit")
        /\ logs' = logs (+) SetToBag({LogRow(c.usr.student_id, c.uid, "entry")})
        /\ Notified(p, [c EXCEPT !.usr = users[c.usr.student_id]], "allow")
        /\ UNCHANGED <<users, sessions, now, load, target, reader, mon>>

\* ------------------------------------------------------------ POST /register
HeldTokens ==
    {users[s].verification_token : s \in {x \in Students : users[x] # NoRow}}
        \cup {procs[q].tok : q \in Procs}

RegisterBegin(p, s, nm) ==
    /\ load = "signup"
    /\ IF users[s] # NoRow /\ users[s].email_verified # 0 /\ users[s].rfid_uid # None
       THEN Accept(p, Done(Call("register", s, None), "already_registered"))
       ELSE \E t \in Tokens \ HeldTokens :
                Accept(p, [Call("register", s, None) EXCEPT
                              !.pc = "reg_commit", !.usr = users[s],
                              !.tok = t, !.nm = nm])
    /\ UNCHANGED <<users, sessions, logs, now, mon>>

RegisterCommit(p) ==
    LET c == procs[p]
        new == [c.usr EXCEPT !.name = c.nm, !.verification_token = c.tok,
                             !.email_verified = 0]
    IN  /\ At(p, "reg_commit")
        /\ IF c.usr # NoRow
           THEN /\ users' = [users EXCEPT ![c.sid] = ApplyUpdate(@, c.usr, new)]
                /\ \E r \in {"verify_page", "mail_failed"} : Goto(p, Done(c, r))
                /\ UNCHANGED <<sessions, logs>>
           ELSE IF users[c.sid] # NoRow
                THEN Fault(p)       \* IntegrityError: duplicate primary key
                ELSE /\ users' = [users EXCEPT ![c.sid] =
                                     UserRow(c.sid, c.nm, None, 0, c.tok)]
                     /\ \E r \in {"verify_page", "mail_failed"} : Goto(p, Done(c, r))
                     /\ UNCHANGED <<sessions, logs>>
        /\ UNCHANGED <<now, load, target, reader, mon>>

\* --------------------------------------------------------------- GET /verify
TokenHolders(t) ==
    {s \in Students : users[s] # NoRow /\ users[s].verification_token = t}

VerifyBegin(p, t) ==
    /\ load = "signup"
    /\ IF t = NoToken
       THEN Accept(p, Done([Call("verify", None, None) EXCEPT !.tok = t], "verify_page"))
       ELSE IF TokenHolders(t) = {}
       THEN Accept(p, Done([Call("verify", None, None) EXCEPT !.tok = t], "invalid_link"))
       ELSE \E s \in TokenHolders(t) :
                LET b == [Call("verify", s, None) EXCEPT !.tok = t, !.usr = users[s]]
                IN  Accept(p, IF users[s].email_verified = 1
                              THEN Done(b, "link_used")
                              ELSE [b EXCEPT !.pc = "ver_commit"])
    /\ UNCHANGED <<users, sessions, logs, now, mon>>

VerifyCommit(p) ==
    LET c == procs[p]
        new == [c.usr EXCEPT !.email_verified = 1, !.verification_token = NoToken]
    IN  /\ At(p, "ver_commit")
        /\ users' = [users EXCEPT ![c.sid] = ApplyUpdate(@, c.usr, new)]
        /\ Goto(p, Done(c, "redirect_bind"))
        /\ UNCHANGED <<sessions, logs, now, load, target, reader, mon>>

\* -------------------------------------------- GET /check_status/{student_id}
\* The hours between datetime.now() and datetime.utcnow() on the server, in
\* seconds: the repository does not fix the server's zone.
ZoneOffsets == {0, 28800}

\* The user query.
StatusBegin(p, s) ==
    /\ load = "signup"
    /\ Accept(p, [Call("status", s, None) EXCEPT !.pc = "status_q", !.usr = users[s]])
    /\ UNCHANGED <<users, sessions, logs, now, mon>>

\* The session query, filtered by expires_at > datetime.now(). For a row found,
\* session_info reads session.first_rfid_uid; RegistrationSession has no such
\* attribute (the column is first_uid), so AttributeError leaves the handler.
StatusQuery(p) ==
    LET c == procs[p]
    IN  /\ At(p, "status_q")
        /\ \E z \in ZoneOffsets :
            LET live == {r \in SessionsOf(c.sid) : r.expires_at > now + z}
            IN  IF live = {}
                THEN Goto(p, Done(c, "status"))
                ELSE \E r \in live : Goto(p, Done([c EXCEPT !.sess = r], "fault"))
        /\ UNCHANGED <<users, sessions, logs, now, load, target, reader, mon>>

\* ------------------------------------------------------ POST /mode/register
\* The handler touches no table: it is one step, taken outside the workers.
enter_register_mode(s) ==
    /\ load = "reader"
    /\ target' = s
    /\ UNCHANGED <<users, sessions, logs, now, procs, load, reader, mon>>

\* ---------------------------------------------------------- the card reader
\* process_rfid_scan assigns current_registering_student_id without declaring
\* it global, so the name is local to the function and the read that opens the
\* function raises UnboundLocalError: no request is made for the card, and the
\* exception leaves asyncio.run and ends rfid_reader_loop.
process_rfid_scan(uid) ==
    /\ reader = "listening"
    /\ reader' = "stopped"
    /\ UNCHANGED <<users, sessions, logs, now, procs, load, target, mon>>

\* ----------------------------------------------------- the clock, responses
Tick ==
    /\ load = "serial"
    /\ now < MaxTicks * TickSeconds
    /\ now' = now + TickSeconds
    /\ UNCHANGED <<users, sessions, logs, procs, load, target, reader, mon>>

\* The observer follows the calls that ran with no other call in flight, one
\* after the other, through the enrollment ritual of one identity and card:
\*   1  a session was started for an identity without a card
\*   2  then the card (bound to nobody) was scanned
\*   3  then the same card was scanned again
\*   4  (from 2) then another card was scanned
\*   5  (from 4) then the first card was scanned
\*   6  (from 5) then the first card was scanned again
\* A scan counts only when the session had not expired as the scan arrived.
MonNext(c) ==
    IF ~c.alone THEN MonIdle
    ELSE IF c.op \in {"start", "bind"}
    THEN IF c.res = "ok" /\ users[c.sid].rfid_uid = None
         THEN [stage |-> 1, sid |-> c.sid, uid |-> None]
         ELSE MonIdle
    ELSE IF c.op = "scan" /\ c.sid = mon.sid /\ c.uid # None /\ ~c.late
    THEN CASE mon.stage = 1 /\ c.free -> [stage |-> 2, sid |-> c.sid, uid |-> c.uid]
           [] mon.stage = 2 /\ c.uid = mon.uid -> [mon EXCEPT !.stage = 3]
           [] mon.stage = 2 /\ c.uid # mon.uid -> [mon EXCEPT !.stage = 4]
           [] mon.stage = 4 /\ c.uid = mon.uid -> [mon EXCEPT !.stage = 5]
           [] mon.stage = 5 /\ c.uid = mon.uid -> [mon EXCEPT !.stage = 6]
           [] OTHER -> MonIdle
    ELSE MonIdle

\* The response leaves the worker.
Return(p) ==
    /\ At(p, "done")
    /\ procs' = [procs EXCEPT ![p] = IdleProc]
    /\ mon' = MonNext(procs[p])
    /\ UNCHANGED <<users, sessions, logs, now, load, target, reader>>

\* ------------------------------------------------------- the specification
\* The tables as registration and verification alone leave them: every student
\* is unregistered or registered and verified; no card is bound, no session is
\* open and nothing is logged.
InitUsers ==
    {u \in [Students -> {NoRow} \cup
                {UserRow(s, n, None, 1, NoToken) : s \in Students, n \in Names}] :
        \A s \in Students : u[s] # NoRow => u[s].student_id = s}

Init ==
    /\ users \in InitUsers
    /\ sessions = EmptyBag
    /\ logs = EmptyBag
    /\ now = 0
    /\ procs = [p \in Procs |-> IdleProc]
    /\ load \in {"serial", "race", "signup", "reader"}
    /\ target = None
    /\ reader = IF load = "reader" THEN "listening" ELSE "off"
    /\ mon = MonIdle

Next ==
    \/ Tick
    \/ \E s \in Enrolling \cup {None} : enter_register_mode(s)
    \/ \E uid \in Presented : process_rfid_scan(uid)
    \/ \E p \in Procs :
        \/ \E s \in Enrolling \cup {None} : StartBegin(p, s)
        \/ StartQuery(p)
        \/ StartCommit(p)
        \/ \E s \in Enrolling : BindBegin(p, s)
        \/ BindQuery(p)
        \/ BindCommit(p)
        \/ \E s \in Enrolling \cup {None}, uid \in Presented \cup {None} :
                ScanBegin(p, s, uid)
        \/ Scan0Other(p)
        \/ Scan0Commit(p)
        \/ Scan0Log(p)
        \/ Scan1User(p)
        \/ Scan1Other(p)
        \/ Scan1Abort(p)
        \/ Scan1Commit(p)
        \/ Scan1Reset(p)
        \/ \E uid \in Presented \cup {None} : GateBegin(p, uid)
        \/ GateCommit(p)
        \/ \E s \in Students, nm \in Names : RegisterBegin(p, s, nm)
        \/ RegisterCommit(p)
        \/ \E t \in Tokens \cup {NoToken} : VerifyBegin(p, t)
        \/ VerifyCommit(p)
        \/ \E s \in Students : StatusBegin(p, s)
        \/ StatusQuery(p)
        \/ Return(p)

Spec == Init /\ [][Next]_vars

\* ================================================================= claims
\* The students a card is bound to.
Holders(uid) == {s \in Students : users[s] # NoRow /\ users[s].rfid_uid = uid}

\* The rows of access_logs with this action and card, whoever the student.
RowsFor(act, uid) ==
    BagCardinality([r \in {x \in BagToSet(logs) : x.action = act /\ x.rfid_uid = uid}
                        |-> logs[r]])

\* The session rows of a student, copies counted.
SessionCount(s) == Copies(SessionsOf(s))

Finished(p) == procs[p].pc = "done"

\* p and q are confirm scans of one card for two identities: each found its
\* session at step 1 with that card pending, and the card was bound to nobody
\* when each of the two arrived.
ConfirmRace(p, q) ==
    /\ p # q
    /\ procs[p].op = "scan" /\ procs[q].op = "scan"
    /\ procs[p].sid # procs[q].sid
    /\ procs[p].uid = procs[q].uid
    /\ \A w \in {p, q} :
        /\ procs[w].sess # NoRow
        /\ procs[w].sess.step = 1
        /\ procs[w].sess.first_uid = procs[w].uid
        /\ procs[w].free
        /\ ~procs[w].late

\* C1: in every reachable state each card is bound to at most one identity.
C1_CardHasOneHolder == \A uid \in Cards : Cardinality(Holders(uid)) <= 1

\* Two confirm scans of one card raced, one bound it and the other was stopped
\* by the unique constraint.
C1_Witness ==
    \E p, q \in Procs :
        /\ ConfirmRace(p, q) /\ Finished(p) /\ Finished(q)
        /\ procs[p].res = "bound" /\ procs[q].res = "fault"

\* C2: of two concurrent confirm scans of one unbound card for two identities,
\* one returns bound and the other the typed "already bound" result.
C2_OneBoundOtherCardAlreadyBound ==
    \A p, q \in Procs :
        ConfirmRace(p, q) /\ Finished(p) /\ Finished(q) =>
            \/ procs[p].res = "bound" /\ procs[q].res = "uid_already_bound_by_other"
            \/ procs[q].res = "bound" /\ procs[p].res = "uid_already_bound_by_other"

\* C3: once two concurrent confirm scans of one unbound card for two identities
\* have both finished, access_logs holds exactly one bind row for that card.
C3_OneBindRow ==
    \A p, q \in Procs :
        ConfirmRace(p, q) /\ Finished(p) /\ Finished(q) =>
            RowsFor("bind", procs[p].uid) = 1

\* Both confirm scans passed the second check before either committed.
C3_Witness ==
    \E p, q \in Procs :
        /\ ConfirmRace(p, q) /\ Finished(p) /\ Finished(q)
        /\ procs[q].res = "fault"
        /\ RowsFor("bind", procs[p].uid) = 1
        /\ RowsFor("SCAN_1", procs[p].uid) = 2

\* C4: in every reachable state each identity has at most one session row.
C4_OneSessionPerIdentity == \A s \in Students : SessionCount(s) <= 1

\* Two session starts for one identity both found no row; the second insert
\* was stopped by the primary key.
C4_Witness ==
    \E p, q \in Procs :
        /\ p # q /\ Finished(p) /\ Finished(q)
        /\ procs[p].op \in {"start", "bind"} /\ procs[q].op \in {"start", "bind"}
        /\ procs[p].sid = procs[q].sid
        /\ procs[p].res = "ok" /\ procs[q].res = "fault"
        /\ SessionCount(procs[p].sid) = 1

\* The scan c continues the observed ritual: it is for the ritual's identity,
\* carries a card, and the session had not expired when it arrived.
Continues(c) ==
    /\ c.op = "scan" /\ c.alone
    /\ c.sid = mon.sid /\ c.uid # None /\ ~c.late

\* C5: for an identity without a card and a card bound to nobody, a session
\* start followed by two scans of that card (neither after the expiry) returns
\* first_scan_ok, then bound with the card bound to the identity; the gate scan
\* of that card that follows returns allow with that identity.
C5_RitualBindsAndAdmits ==
    \A p \in Procs :
        LET c == procs[p]
        IN  Finished(p) =>
            /\ Continues(c) /\ mon.stage = 1 /\ c.free => c.res = "first_scan_ok"
            /\ Continues(c) /\ mon.stage = 2 /\ c.uid = mon.uid =>
                    c.res = "bound" /\ Holders(c.uid) = {c.sid}
            /\ c.op = "gate" /\ c.alone /\ mon.stage = 3 /\ c.uid = mon.uid =>
                    c.res = "allow" /\ c.usr.student_id = mon.sid

\* The gate scan after a completed ritual has been answered.
C5_Witness ==
    \E p \in Procs :
        /\ Finished(p) /\ procs[p].op = "gate" /\ procs[p].alone
        /\ mon.stage = 3 /\ procs[p].uid = mon.uid
        /\ procs[p].res = "allow"

\* C6: after a session start, a scan of card A and a scan of another card B,
\* the session is at step 0 again with no pending card and the identity holds
\* no card; two further scans of A before the expiry return first_scan_ok and
\* bound, with A bound to the identity.
C6_MismatchThenRetryBinds ==
    \A p \in Procs :
        LET c == procs[p]
        IN  Finished(p) /\ Continues(c) =>
            /\ mon.stage = 2 /\ c.uid # mon.uid =>
                    /\ SessionCount(c.sid) = 1
                    /\ \A r \in SessionsOf(c.sid) : r.step = 0 /\ r.first_uid = None
                    /\ users[c.sid].rfid_uid = None
                    /\ Holders(mon.uid) = {}
            /\ mon.stage = 4 /\ c.uid = mon.uid => c.res = "first_scan_ok"
            /\ mon.stage = 5 /\ c.uid = mon.uid =>
                    c.res = "bound" /\ Holders(c.uid) = {c.sid}

\* The second scan of A after the mismatch has been answered.
C6_Witness ==
    \E p \in Procs :
        /\ Finished(p) /\ Continues(procs[p])
        /\ mon.stage = 5 /\ procs[p].uid = mon.uid
        /\ procs[p].res = "bound"

\* C7: a scan that arrives when its identity's session row has expires_at
\* earlier than the clock is answered at once with no_session, whatever the
\* session's step, and changes no user, session or log row.
C7_ExpiredScanRefused ==
    [][\A p \in Procs :
        (Idle(p) /\ procs'[p].op = "scan" /\ procs'[p].late) =>
            /\ procs'[p].pc = "done"
            /\ procs'[p].res = "no_session"
            /\ UNCHANGED <<users, sessions, logs>>]_vars

\* A scan found its session at step 1 and expired, and was refused.
C7_Witness ==
    \E p \in Procs :
        /\ Finished(p) /\ procs[p].op = "scan" /\ procs[p].late
        /\ procs[p].sess.step = 1
        /\ procs[p].res = "no_session"
        /\ SessionsOf(procs[p].sid) = {procs[p].sess}

\* C8: a gate scan of a card bound to nobody returns deny and leaves a deny
\* row with no identity in access_logs.
C8_DenyIsAudited ==
    \A p \in Procs :
        Finished(p) /\ procs[p].op = "gate" /\ procs[p].uid # None
                    /\ procs[p].usr = NoRow =>
            /\ procs[p].res = "deny"
            /\ CopiesIn(LogRow(None, procs[p].uid, "deny"), logs) >= 1

\* C9: a session start (either entry point) for an identity that holds a card
\* is refused with already_bound and goes no further.
C9_BoundIdentityCannotStart ==
    \A p \in Procs :
        /\ procs[p].op \in {"start", "bind"}
        /\ procs[p].usr # NoRow
        /\ procs[p].usr.rfid_uid # None
        => Finished(p) /\ procs[p].res = "already_bound"

\* C10: two scans for one identity that both found its session at step 0 never
\* both return first_scan_ok.
C10_NoDoubleFirstScan ==
    \A p, q \in Procs :
        /\ p # q /\ Finished(p) /\ Finished(q)
        /\ procs[p].op = "scan" /\ procs[q].op = "scan"
        /\ procs[p].sid = procs[q].sid
        /\ procs[p].sess # NoRow /\ procs[q].sess # NoRow
        /\ procs[p].sess.step = 0 /\ procs[q].sess.step = 0
        => ~(procs[p].res = "first_scan_ok" /\ procs[q].res = "first_scan_ok")

\* C11: a card read by the reader becomes a request at once: an enrollment
\* scan for the registration target when a target is set and that student has
\* a session row, and a gate scan in every other case.
C11_ReaderScanRouted ==
    [][reader = "listening" /\ reader' # reader =>
        \E p \in Procs :
            /\ Idle(p)
            /\ procs'[p].pc # "idle"
            /\ procs'[p].uid # None
            /\ IF target # None /\ SessionsOf(target) # {}
               THEN procs'[p].op = "scan" /\ procs'[p].sid = target
               ELSE procs'[p].op = "gate"]_vars

\* C12: whenever a student who holds no card has a session row, the program
\* can take a step that deletes both that session row and the student's user
\* row.
C12_CancelAvailable ==
    \A s \in Students :
        (users[s] # NoRow /\ users[s].rfid_uid = None /\ SessionsOf(s) # {}) =>
            ENABLED (/\ Next
                     /\ users'[s] = NoRow
                     /\ \A r \in BagToSet(sessions') : r.student_id # s)

\* C13: in every reachable state no student both holds a card and has a
\* session row.
C13_BoundHasNoSession ==
    \A s \in Students :
        users[s] # NoRow /\ users[s].rfid_uid # None => SessionsOf(s) = {}

\* C14: no call ends with an uncaught storage exception.
C14_NoUncaughtStorageException ==
    \A p \in Procs : procs[p].res # "fault"

\* C15: a step gives a student a card only when it is the commit of a confirm
\* scan for that student whose card is the session's pending card, and no step
\* changes or removes the card a student holds.
C15_BindingOnlyByConfirmAndKept ==
    [][\A s \in Students :
        /\ users[s] # NoRow /\ users[s].rfid_uid # None =>
                users'[s] # NoRow /\ users'[s].rfid_uid = users[s].rfid_uid
        /\ (users[s] = NoRow \/ users[s].rfid_uid = None)
                /\ users'[s] # NoRow /\ users'[s].rfid_uid # None =>
                \E p \in Procs :
                    /\ procs[p].pc = "scan1_commit" /\ procs[p].sid = s
                    /\ procs[p].sess.step = 1
                    /\ procs[p].sess.first_uid = users'[s].rfid_uid
                    /\ procs[p].uid = users'[s].rfid_uid
                    /\ procs'[p].res = "bound"]_vars

\* C16: a gate scan of a card bound to student i goes on with i's row and
\* writes nothing until its commit; the commit adds exactly one entry row for
\* i and the card, changes no user row and no session row, and answers allow
\* with i's student_id and name.
C16_GateAllowFrame ==
    [][\A p \in Procs :
        /\ (Idle(p) /\ procs'[p].op = "gate" /\ procs'[p].uid # None
                    /\ Holders(procs'[p].uid) # {}) =>
                /\ procs'[p].pc = "gate_commit"
                /\ \E i \in Holders(procs'[p].uid) : procs'[p].usr = users[i]
                /\ UNCHANGED <<users, sessions, logs>>
        /\ (procs[p].pc = "gate_commit" /\ procs'[p].pc # "gate_commit") =>
                LET i == procs[p].usr.student_id
                IN  /\ procs'[p].pc = "done" /\ procs'[p].res = "allow"
                    /\ procs'[p].usr.student_id = i
                    /\ procs'[p].usr.name = users[i].name
                    /\ logs' = logs (+) SetToBag({LogRow(i, procs[p].uid, "entry")})
                    /\ UNCHANGED <<users, sessions>>]_vars

\* A gate scan of a bound card was allowed while its holder's card was all
\* that had been logged before.
C16_Witness ==
    \E p \in Procs :
        /\ Finished(p) /\ procs[p].op = "gate" /\ procs[p].res = "allow"
        /\ Holders(procs[p].uid) = {procs[p].usr.student_id}
        /\ CopiesIn(LogRow(procs[p].usr.student_id, procs[p].uid, "entry"), logs) = 1

\* C17: a gate scan or an enrollment scan that arrives without a card is
\* answered at once as missing data and changes no user, session or log row.
C17_MissingCardRejected ==
    [][\A p \in Procs :
        (Idle(p) /\ procs'[p].op \in {"scan", "gate"} /\ procs'[p].uid = None) =>
            /\ procs'[p].pc = "done"
            /\ procs'[p].res = "missing"
            /\ UNCHANGED <<users, sessions, logs>>]_vars

\* A gate scan without a card was refused while a student without a card was
\* registered.
C17_Witness ==
    \E p \in Procs :
        /\ Finished(p) /\ procs[p].op = "gate" /\ procs[p].uid = None
        /\ procs[p].res = "missing"
        /\ \E s \in Students : users[s] # NoRow /\ users[s].rfid_uid = None

\* The scan c found its session unexpired at this step and presents a card
\* that another student held when the scan arrived.
TakenAt(c, st) ==
    /\ c.op = "scan" /\ c.taken /\ ~c.late
    /\ c.sess # NoRow
    /\ c.sess.step = st

\* C18: a confirm scan (session at step 1, the card its pending card) of a
\* card that another student held when the scan arrived never changes a user
\* row or a log row; it ends with uid_already_bound_by_other, and the step
\* that ends it leaves the student without a session row.
C18_ConfirmOfTakenCardAborts ==
    [][\A p \in Procs :
        LET c == procs[p]
        IN  (TakenAt(c, 1) /\ c.sess.first_uid = c.uid
                /\ c.pc # "done" /\ procs'[p].pc # c.pc) =>
                /\ UNCHANGED <<users, logs>>
                /\ IF procs'[p].pc = "done"
                   THEN /\ procs'[p].res = "uid_already_bound_by_other"
                        /\ \A r \in BagToSet(sessions') : r.student_id # c.sid
                   ELSE UNCHANGED sessions]_vars

\* A confirm scan was refused because the card had been bound to another
\* student since the first scan.
C18_Witness ==
    \E p \in Procs :
        /\ Finished(p) /\ TakenAt(procs[p], 1)
        /\ procs[p].sess.first_uid = procs[p].uid
        /\ procs[p].res = "uid_already_bound_by_other"
        /\ SessionsOf(procs[p].sid) = {}
        /\ users[procs[p].sid].rfid_uid = None

\* C19: a first scan (session at step 0) of a card that another student held
\* when the scan arrived ends with uid_already_bound at its next step, and
\* changes no user, session or log row.
C19_FirstScanOfTakenCardRefused ==
    [][\A p \in Procs :
        LET c == procs[p]
        IN  (TakenAt(c, 0) /\ c.pc # "done" /\ procs'[p].pc # c.pc) =>
                /\ procs'[p].pc = "done"
                /\ procs'[p].res = "uid_already_bound"
                /\ UNCHANGED <<users, sessions, logs>>]_vars

\* A first scan of another student's card was refused and the session is as
\* the scan found it: step 0, no pending card.
C19_Witness ==
    \E p \in Procs :
        /\ Finished(p) /\ TakenAt(procs[p], 0)
        /\ procs[p].res = "uid_already_bound"
        /\ SessionsOf(procs[p].sid) = {procs[p].sess}
        /\ procs[p].sess.first_uid = None

\* C20: a session start (either entry point) for a registered student (a
\* verified one, for the bind page) that ran with no other call in flight
\* returns ok and leaves the student exactly one session row, at step 0, with
\* no pending card and expiring one TTL after the clock the call read,
\* whatever row it found: none, step 0, step 1 or expired, or the row a start
\* just before it left.
C20_StartLeavesFreshSession ==
    \A p \in Procs :
        LET c == procs[p]
        IN  (/\ Finished(p) /\ c.op \in {"start", "bind"} /\ c.alone
             /\ c.sid # None
             /\ users[c.sid] # NoRow
             /\ c.op = "bind" => users[c.sid].email_verified # 0) =>
                /\ c.res = "ok"
                /\ SessionCount(c.sid) = 1
                /\ SessionsOf(c.sid) = {SessionRow(c.sid, None, 0, c.exp)}
                /\ c.exp <= now + TTL
                /\ load # "serial" => c.exp = now + TTL

\* The second of two consecutive session starts has been answered.
C20_Witness ==
    \E p \in Procs :
        /\ Finished(p) /\ procs[p].op \in {"start", "bind"} /\ procs[p].alone
        /\ mon.stage = 1 /\ mon.sid = procs[p].sid
        /\ procs[p].sess # NoRow
        /\ procs[p].res = "ok"

\* C21: in every reachable state a session row at step 1 has the SCAN_1 row
\* of its student and pending card in access_logs, and a scan that has been
\* answered first_scan_ok has added that row.
C21_FirstScanStoredWithItsRow ==
    /\ \A r \in BagToSet(sessions) :
            r.step = 1 =>
                CopiesIn(LogRow(r.student_id, r.first_uid, "SCAN_1"), logs) >= 1
    /\ \A p \in Procs :
            Finished(p) /\ procs[p].op = "scan" /\ procs[p].res = "first_scan_ok" =>
                CopiesIn(LogRow(procs[p].sid, procs[p].uid, "SCAN_1"), logs) >= 1

\* C22: a confirm scan that is answered mismatch has added a BIND_MISMATCH row
\* for its student and card to access_logs.
C22_MismatchIsAudited ==
    \A p \in Procs :
        Finished(p) /\ procs[p].op = "scan" /\ procs[p].res = "mismatch" =>
            CopiesIn(LogRow(procs[p].sid, procs[p].uid, "BIND_MISMATCH"), logs) >= 1

\* C23: in every reachable state a session row at step 0 has no pending card
\* and a session row at step 1 has one.
C23_PendingCardIffStepOne ==
    \A r \in BagToSet(sessions) :
        /\ r.step \in {0, 1}
        /\ r.step = 0 => r.first_uid = None
        /\ r.step = 1 => r.first_uid # None

\* A session start and a first scan for one student ran at once and the
\* session row is at step 1 with the scanned card pending.
C23_Witness ==
    \E p, q \in Procs :
        /\ p # q /\ Finished(p) /\ Finished(q)
        /\ ~procs[p].alone /\ ~procs[q].alone
        /\ procs[p].op \in {"start", "bind"} /\ procs[p].res = "ok"
        /\ procs[q].op = "scan" /\ procs[q].res = "first_scan_ok"
        /\ procs[p].sid = procs[q].sid
        /\ \E r \in SessionsOf(procs[p].sid) :
                r.step = 1 /\ r.first_uid = procs[q].uid

\* C27: in every reachable state a student who has a session row or holds a
\* card has email_verified = 1.
C27_OnlyVerifiedEnroll ==
    \A s \in Students :
        users[s] # NoRow /\ (SessionsOf(s) # {} \/ users[s].rfid_uid # None) =>
            users[s].email_verified = 1

\* C24: a gate scan that found the card's holder and a confirm scan that bound
\* end the same way whether the notification was sent or failed: allow with
\* the entry row stored, bound with the card bound to the student and the
\* bind row stored.
C24_NotificationFailureHarmless ==
    \A p \in Procs :
        LET c == procs[p]
        IN  Finished(p) /\ c.ntf \in Outcomes =>
                /\ c.op \in {"gate", "scan"}
                /\ c.op = "gate" =>
                        /\ c.res = "allow"
                        /\ CopiesIn(LogRow(c.usr.student_id, c.uid, "entry"), logs) >= 1
                /\ c.op = "scan" =>
                        /\ c.res = "bound"
                        /\ users[c.sid].rfid_uid = c.uid
                        /\ CopiesIn(LogRow(c.sid, c.uid, "bind"), logs) >= 1

\* A confirm scan bound its card although the notification failed.
C24_Witness ==
    \E p \in Procs :
        /\ Finished(p) /\ procs[p].op = "scan" /\ procs[p].ntf = "failed"
        /\ procs[p].res = "bound"
        /\ Holders(procs[p].uid) = {procs[p].sid}

\* C25: a status query is answered with the projection of the stored state:
\* the bound flag of the student's row and, when the student has an unexpired
\* session row, that row's step.
C25_StatusIsProjection ==
    \A p \in Procs :
        LET c == procs[p]
        IN  Finished(p) /\ c.op = "status" =>
                /\ c.res = "status"
                /\ c.usr = users[c.sid]
                /\ \A r \in SessionsOf(c.sid) : ~Expired(r, now) => c.sess = r

\* C26: a card read by the reader while a registration target is set becomes
\* at once an enrollment scan of that card for the target (whose bound answer
\* would clear the target).
C26_RegistrationModeScanCompletes ==
    [][target # None /\ reader = "listening" /\ reader' # reader =>
        \E p \in Procs :
            /\ Idle(p)
            /\ procs'[p].op = "scan"
            /\ procs'[p].sid = target
            /\ procs'[p].uid # None]_vars
=============================================================================
